---- MODULE Spec2Model ----
(***************************************************************************)
(* A model of THORChainApp (src/src/index.js), the host-side facade of the *)
(* THORChain Ledger application: the version-gated path serializer, the    *)
(* chunked sign protocol, the address operations and the response          *)
(* decoders, run as asynchronous call chains over one shared transport and *)
(* one shared facade instance.                                             *)
(*                                                                         *)
(* Buffers are sequences of bytes (0..255).  A JavaScript value that may   *)
(* be a Buffer or a plain object is wrapped (Buf / Obj) so that the type   *)
(* test Buffer.concat performs can be modelled.  A promise outcome is      *)
(* Ok(value) or Throw(exception).                                          *)
(*                                                                         *)
(* The modules ./common and ./helperV2 are imported by index.js but are    *)
(* not part of the sources at hand; what the model needs of them is taken  *)
(* from the design specification and marked as such.                       *)
(***************************************************************************)
EXTENDS Integers, Sequences, FiniteSets, TLC

\* ------------------------------------------------------------ bounds
\* Longest message handed to sign.
MaxMsgLen == 3
\* Maximum chunk payload (common.CHUNK_SIZE, scaled down).
CHUNK_SIZE == 2

\* --------------------------------------------------- program constants
NoError == 36864                 \* 0x9000
UserRejected == 27014            \* 0x6986, a device-reported failure
DashboardOnly == 28160           \* 0x6e00
VersionNotSupported == 25600     \* 0x6400
FormatNotRecognized == 36865     \* 0x9001
UnknownError == 65535            \* 0xffff, return code of a bare exception
SupportedMajor == 2
PkLen == 33
HrpMinLen == 3
HrpMaxLen == 83
P1_ONLY_RETRIEVE == 0
P1_SHOW_ADDRESS_IN_DEVICE == 1

CLA == "CLA"
INS_GET_VERSION == "GET_VERSION"
INS_GET_ADDR_SECP256K1 == "GET_ADDR_SECP256K1"
INS_SIGN_SECP256K1 == "SIGN_SECP256K1"

\* ------------------------------------------------------ value helpers
Min(a, b) == IF a < b THEN a ELSE b
Max(a, b) == IF a > b THEN a ELSE b

Ok(v) == [ok |-> TRUE, val |-> v]
Throw(e) == [ok |-> FALSE, exc |-> e]

Buf(b) == [type |-> "Buffer", bytes |-> b]
Obj(r) == [type |-> "Object", fields |-> r]
IsBuffer(v) == v.type = "Buffer"
NullValue == [type |-> "null"]
UndefinedValue == [type |-> "undefined"]
\* r.signature of an object that may lack the property.
SignatureOf(r) == IF "signature" \in DOMAIN r THEN r.signature ELSE UndefinedValue

\* new Error(msg); an exception of the transport carrying a status word;
\* a structured result used as the thrown value.
ErrorExc(msg) == [tag |-> "error", message |-> msg]
TransportExc(sc) == [tag |-> "transport", statusCode |-> sc]
ResultExc(r) == [tag |-> "result", value |-> r]

\* buf[i] of a Buffer, 0-based; -1 stands for undefined (out of range).
At(buf, i) == IF i >= 0 /\ i < Len(buf) THEN buf[i + 1] ELSE -1

\* Buffer.prototype.slice(start, end): negative indices count from the end,
\* both are clamped to the buffer, an empty window yields an empty buffer.
SliceIndex(k, n) == IF k < 0 THEN Max(n + k, 0) ELSE Min(k, n)
BufferSlice(buf, start, end) ==
  LET n == Len(buf)
      a == SliceIndex(start, n)
      b == SliceIndex(end, n)
  IN IF b <= a THEN << >> ELSE SubSeq(buf, a + 1, b)

\* Buffer.concat(list): throws a TypeError unless every element is a Buffer.
RECURSIVE ConcatBytes(_)
ConcatBytes(list) ==
  IF list = << >> THEN << >> ELSE Head(list).bytes \o ConcatBytes(Tail(list))
BufferConcat(list) ==
  IF \A k \in 1..Len(list) : IsBuffer(list[k])
  THEN Ok(Buf(ConcatBytes(list)))
  ELSE Throw(ErrorExc("TypeError: list argument must be an Array of Buffers"))

\* The two trailing bytes of a response, big-endian:
\*   errorCodeData = response.slice(-2); errorCodeData[0] * 256 + errorCodeData[1]
StatusWord(response) ==
  LET errorCodeData == BufferSlice(response, -2, Len(response))
  IN At(errorCodeData, 0) * 256 + At(errorCodeData, 1)

StatusBytes(sw) == << sw \div 256, sw % 256 >>

\* v & mask for non-negative integers.
RECURSIVE BitAnd(_, _)
BitAnd(v, mask) ==
  IF v <= 0 \/ mask <= 0 THEN 0
  ELSE (IF v % 2 = 1 /\ mask % 2 = 1 THEN 1 ELSE 0) + 2 * BitAnd(v \div 2, mask \div 2)

\* ------------------------------------------------ ./common (from the spec)
\* Status table: code -> message, with a catch-all.
errorCodeToString(rc) ==
  CASE rc = NoError -> "No errors"
    [] rc = UserRejected -> "Transaction rejected"
    [] rc = VersionNotSupported -> "App Version is not supported"
    [] OTHER -> "Unknown error code"

\* The uniform error normalisation: a thrown structured result keeps its
\* status, a transport exception yields its status word, anything else the
\* catch-all code with the exception's text.
processErrorResponse(e) ==
  CASE e.tag = "result" ->
         [return_code |-> e.value.return_code, error_message |-> e.value.error_message]
    [] e.tag = "transport" ->
         [return_code |-> e.statusCode, error_message |-> errorCodeToString(e.statusCode)]
    [] OTHER ->
         [return_code |-> UnknownError, error_message |-> e.message]

\* Any status word is handed back to the helper as a response.
AnyStatus == {NoError, UserRejected, DashboardOnly, VersionNotSupported}

\* The GET_VERSION request of common.getVersion(transport).
GetVersionRequest ==
  [cla |-> CLA, ins |-> INS_GET_VERSION, p1 |-> 0, p2 |-> 0,
   data |-> Buf(<< >>), statuses |-> AnyStatus]

\* Version decode: testMode, major, minor, patch, deviceLocked, status word.
DecodeVersion(response) ==
  LET rc == StatusWord(response)
  IN [return_code |-> rc, error_message |-> errorCodeToString(rc),
      test_mode |-> At(response, 0) # 0,
      major |-> At(response, 1), minor |-> At(response, 2), patch |-> At(response, 3),
      device_locked |-> At(response, 4) = 1]

\* common.getVersion: the outcome of the exchange, decoded; a transport
\* exception is passed on.
getVersion(reply) == IF reply.ok THEN Ok(DecodeVersion(reply.val)) ELSE reply

\* ---------------------------------------------- ./helperV2 (from the spec)
\* One path level as 4 bytes.
UInt32Bytes(v) ==
  << v % 256, (v \div 256) % 256, (v \div 65536) % 256, (v \div 16777216) % 256 >>

RECURSIVE SerializeLevels(_)
SerializeLevels(path) ==
  IF path = << >> THEN << >> ELSE UInt32Bytes(Head(path)) \o SerializeLevels(Tail(path))

\* serializePathv2: 4 bytes per level, in path order; a path that is not 5
\* levels long is malformed input.
serializePathv2(path) ==
  IF Len(path) # 5 THEN Throw(ErrorExc("Invalid path."))
  ELSE Ok(Buf(SerializeLevels(path)))

\* signSendChunkv2: one SIGN exchange, p1 = chunk index, p2 = chunk count.
SignChunkRequest(chunkIdx, chunkNum, chunk) ==
  [cla |-> CLA, ins |-> INS_SIGN_SECP256K1, p1 |-> chunkIdx, p2 |-> chunkNum,
   data |-> chunk, statuses |-> AnyStatus]

\* The decoded response of a chunk: the status, and the signature bytes
\* before it, null when there are none.  A transport exception is passed on.
SignChunkResponse(reply) ==
  IF ~reply.ok THEN reply
  ELSE LET rc == StatusWord(reply.val)
           sig == BufferSlice(reply.val, 0, -2)
       IN Ok([return_code |-> rc, error_message |-> errorCodeToString(rc),
              signature |-> IF sig = << >> THEN NullValue ELSE Buf(sig)])

\* publicKeyv2: one exchange carrying hrp + path; the decoded public key.
PublicKeyRequest(data) ==
  [cla |-> CLA, ins |-> INS_GET_ADDR_SECP256K1, p1 |-> 0, p2 |-> 0,
   data |-> data, statuses |-> AnyStatus]

PublicKeyResponse(reply) ==
  IF ~reply.ok THEN reply
  ELSE LET rc == StatusWord(reply.val)
       IN Ok([compressed_pk |-> BufferSlice(reply.val, 0, PkLen),
              return_code |-> rc, error_message |-> errorCodeToString(rc)])

\* ------------------------------------------------- src/src/index.js, pure
\* A string argument: null/undefined, or its character codes.
NullString == [isNull |-> TRUE, chars |-> << >>]
Str(chars) == [isNull |-> FALSE, chars |-> chars]

\* serializeHRP with the lower bound taken exclusively.
serializeHRP_ExclusiveMin(hrp) ==
  IF hrp.isNull \/ Len(hrp.chars) <= HrpMinLen \/ Len(hrp.chars) > HrpMaxLen
  THEN Throw(ErrorExc("Invalid HRP"))
  ELSE Ok(Buf(<< Len(hrp.chars) >> \o hrp.chars))

serializeHRP(hrp) ==
  IF hrp.isNull \/ Len(hrp.chars) < HrpMinLen \/ Len(hrp.chars) > HrpMaxLen
  THEN Throw(ErrorExc("Invalid HRP"))
  ELSE Ok(Buf(<< Len(hrp.chars) >> \o hrp.chars))

UnsupportedResult ==
  [return_code |-> VersionNotSupported, error_message |-> "App Version is not supported"]

\* serializePath without the check of the version query's return code.
serializePath_NoStatusCheck(path, reply) ==
  LET r == getVersion(reply)
  IN IF ~r.ok THEN [assigned |-> FALSE, outcome |-> r]
     ELSE [assigned |-> TRUE, version |-> r.val,
           outcome |-> IF r.val.major = SupportedMajor THEN serializePathv2(path)
                       ELSE Ok(Obj(UnsupportedResult))]

\* serializePath, from the response of its version query on: the value it
\* stores in this.versionResponse (if the query returned one) and the
\* outcome of the returned promise.
serializePath(path, reply) ==
  LET r == getVersion(reply)
  IN IF ~r.ok THEN [assigned |-> FALSE, outcome |-> r]
     ELSE [assigned |-> TRUE, version |-> r.val,
           outcome |-> IF r.val.return_code # NoError THEN Throw(ResultExc(r.val))
                       ELSE IF r.val.major = SupportedMajor THEN serializePathv2(path)
                       ELSE Ok(Obj(UnsupportedResult))]

\* The loop of signGetChunks stopping before a window that is not full.
RECURSIVE MessageChunks_FullOnly(_, _)
MessageChunks_FullOnly(buffer, i) ==
  IF i + CHUNK_SIZE <= Len(buffer)
  THEN << Buf(BufferSlice(buffer, i, i + CHUNK_SIZE)) >>
         \o MessageChunks_FullOnly(buffer, i + CHUNK_SIZE)
  ELSE << >>

\* The loop of signGetChunks from offset i on.
RECURSIVE MessageChunks(_, _)
MessageChunks(buffer, i) ==
  IF i < Len(buffer)
  THEN LET end == IF i > Len(buffer) THEN Len(buffer) ELSE i + CHUNK_SIZE
       IN << Buf(BufferSlice(buffer, i, end)) >> \o MessageChunks(buffer, i + CHUNK_SIZE)
  ELSE << >>

\* signGetChunks once serializePath has resolved with serializedPath.
signGetChunks(serializedPath, message) ==
  << serializedPath >> \o MessageChunks(message, 0)

\* "err" in ASCII.
ErrString == << 101, 114, 114 >>

\* A flag of appInfo with && written for &.
FlagSet_LogicalAnd(flagsValue, mask) == (IF flagsValue # 0 THEN mask ELSE 0) # 0

\* (flagsValue & mask) !== 0
FlagSet(flagsValue, mask) == BitAnd(flagsValue, mask) # 0

\* The onFulfilled callback of appInfo.
appInfoDecode(response) ==
  LET returnCode == StatusWord(response)
      ok == At(response, 0) = 1
      appNameLen == At(response, 1)
      idx1 == 2 + appNameLen
      appVersionLen == At(response, idx1)
      idx2 == idx1 + 1
      idx3 == idx2 + appVersionLen
      appFlagsLen == At(response, idx3)
      idx4 == idx3 + 1
      appName == IF ok THEN BufferSlice(response, 2, 2 + appNameLen) ELSE ErrString
      appVersion == IF ok THEN BufferSlice(response, idx2, idx2 + appVersionLen) ELSE ErrString
      flagLen == IF ok THEN appFlagsLen ELSE 0
      flagsValue == IF ok THEN At(response, idx4) ELSE 0
  IN [return_code |-> returnCode,
      error_message |-> errorCodeToString(returnCode),
      appName |-> appName,
      appVersion |-> appVersion,
      flagLen |-> flagLen,
      flagsValue |-> flagsValue,
      flag_recovery |-> FlagSet(flagsValue, 1),
      flag_signed_mcu_code |-> FlagSet(flagsValue, 2),
      flag_onboarded |-> FlagSet(flagsValue, 4),
      flag_pin_validated |-> FlagSet(flagsValue, 128)]

\* The onFulfilled callback of deviceInfo.
\* deviceInfo dropping the last byte of the MCU version whatever it is.
deviceInfoDecode_AlwaysStrip(response) ==
  LET returnCode == StatusWord(response)
      targetId == BufferSlice(response, 0, 4)
      secureElementVersionLen == At(response, 4)
      pos1 == 5
      seVersion == BufferSlice(response, pos1, pos1 + secureElementVersionLen)
      pos2 == pos1 + secureElementVersionLen
      flagsLen == At(response, pos2)
      pos3 == pos2 + 1
      flag == BufferSlice(response, pos3, pos3 + flagsLen)
      pos4 == pos3 + flagsLen
      mcuVersionLen == At(response, pos4)
      pos == pos4 + 1
      tmp == BufferSlice(response, pos, pos + mcuVersionLen)
      mcuVersion == BufferSlice(response, pos, pos + mcuVersionLen - 1)
  IN IF returnCode = DashboardOnly
     THEN [return_code |-> returnCode,
           error_message |-> "This command is only available in the Dashboard"]
     ELSE [return_code |-> returnCode,
           error_message |-> errorCodeToString(returnCode),
           targetId |-> targetId,
           seVersion |-> seVersion,
           flag |-> flag,
           mcuVersion |-> mcuVersion]

deviceInfoDecode(response) ==
  LET returnCode == StatusWord(response)
      targetId == BufferSlice(response, 0, 4)
      secureElementVersionLen == At(response, 4)
      pos1 == 5
      seVersion == BufferSlice(response, pos1, pos1 + secureElementVersionLen)
      pos2 == pos1 + secureElementVersionLen
      flagsLen == At(response, pos2)
      pos3 == pos2 + 1
      flag == BufferSlice(response, pos3, pos3 + flagsLen)
      pos4 == pos3 + flagsLen
      mcuVersionLen == At(response, pos4)
      pos == pos4 + 1
      tmp == BufferSlice(response, pos, pos + mcuVersionLen)
      mcuVersion == IF At(tmp, mcuVersionLen - 1) = 0
                    THEN BufferSlice(response, pos, pos + mcuVersionLen - 1)
                    ELSE tmp
  IN IF returnCode = DashboardOnly
     THEN [return_code |-> returnCode,
           error_message |-> "This command is only available in the Dashboard"]
     ELSE [return_code |-> returnCode,
           error_message |-> errorCodeToString(returnCode),
           targetId |-> targetId,
           seVersion |-> seVersion,
           flag |-> flag,
           mcuVersion |-> mcuVersion]

\* The requests of appInfo and deviceInfo.
AppInfoRequest ==
  [cla |-> "0xb0", ins |-> "0x01", p1 |-> 0, p2 |-> 0, data |-> Buf(<< >>),
   statuses |-> {NoError}]
DeviceInfoRequest ==
  [cla |-> "0xe0", ins |-> "0x01", p1 |-> 0, p2 |-> 0, data |-> Buf(<< >>),
   statuses |-> {NoError, DashboardOnly}]

\* The onFulfilled callback of the GET_ADDR_SECP256K1 exchange, as written in
\* getAddressAndPubKey and again in showAddressAndPubKey.
getAddressAndPubKeyDecode(response) ==
  LET returnCode == StatusWord(response)
  IN [bech32_address |-> BufferSlice(response, PkLen, -2),
      compressed_pk |-> BufferSlice(response, 0, PkLen),
      return_code |-> returnCode,
      error_message |-> errorCodeToString(returnCode)]

\* The address taken from one byte too early.
showAddressAndPubKeyDecode_OffByOne(response) ==
  LET returnCode == StatusWord(response)
  IN [bech32_address |-> BufferSlice(response, PkLen - 1, -2),
      compressed_pk |-> BufferSlice(response, 0, PkLen),
      return_code |-> returnCode,
      error_message |-> errorCodeToString(returnCode)]

showAddressAndPubKeyDecode(response) ==
  LET returnCode == StatusWord(response)
  IN [bech32_address |-> BufferSlice(response, PkLen, -2),
      compressed_pk |-> BufferSlice(response, 0, PkLen),
      return_code |-> returnCode,
      error_message |-> errorCodeToString(returnCode)]

\* The callback run on the serialized path: the request it hands to the
\* transport, or the exception serializeHRP or Buffer.concat throws.
\* The request of getAddressAndPubKey built without validating the prefix.
getAddressAndPubKeyRequest_NoHrpCheck(hrp, serializedPath) ==
  LET h == Ok(Buf(<< Len(hrp.chars) >> \o hrp.chars))
      data == IF h.ok THEN BufferConcat(<< h.val, serializedPath >>) ELSE h
  IN IF ~data.ok THEN data
     ELSE Ok([cla |-> CLA, ins |-> INS_GET_ADDR_SECP256K1, p1 |-> P1_ONLY_RETRIEVE,
              p2 |-> 0, data |-> data.val, statuses |-> {NoError}])

getAddressAndPubKeyRequest(hrp, serializedPath) ==
  LET h == serializeHRP(hrp)
      data == IF h.ok THEN BufferConcat(<< h.val, serializedPath >>) ELSE h
  IN IF ~data.ok THEN data
     ELSE Ok([cla |-> CLA, ins |-> INS_GET_ADDR_SECP256K1, p1 |-> P1_ONLY_RETRIEVE,
              p2 |-> 0, data |-> data.val, statuses |-> {NoError}])

showAddressAndPubKeyRequest(hrp, serializedPath) ==
  LET h == serializeHRP(hrp)
      data == IF h.ok THEN BufferConcat(<< h.val, serializedPath >>) ELSE h
  IN IF ~data.ok THEN data
     ELSE Ok([cla |-> CLA, ins |-> INS_GET_ADDR_SECP256K1, p1 |-> P1_SHOW_ADDRESS_IN_DEVICE,
              p2 |-> 0, data |-> data.val, statuses |-> {NoError}])

\* "thor" in ASCII, the prefix publicKey uses.
ThorHrp == Str(<< 116, 104, 111, 114 >>)

\* The supported-version branch of publicKey: the request publicKeyv2 sends,
\* or the exception thrown while building its payload.
publicKeyRequest(serializedPath) ==
  LET h == serializeHRP(ThorHrp)
      data == IF h.ok THEN BufferConcat(<< h.val, serializedPath >>) ELSE h
  IN IF ~data.ok THEN data ELSE Ok(PublicKeyRequest(data.val))

\* signSendChunk without the version switch: always the exchange.
signSendChunk_NoVersionSwitch(major, chunkIdx, chunkNum, chunk) ==
  [send |-> TRUE, request |-> SignChunkRequest(chunkIdx, chunkNum, chunk)]

\* signSendChunk: the version switch; either the exchange signSendChunkv2
\* performs or the result returned without any exchange.
signSendChunk(major, chunkIdx, chunkNum, chunk) ==
  IF major = SupportedMajor
  THEN [send |-> TRUE, request |-> SignChunkRequest(chunkIdx, chunkNum, chunk)]
  ELSE [send |-> FALSE, response |-> UnsupportedResult]

\* The chunk index counted from 0.
SignChunkIdx_ZeroBased(i) == i

\* The index sign passes for chunks[i]: 1 for chunks[0], 1 + i in the loop.
SignChunkIdx(i) == 1 + i

\* sign keeping the signature of the response to chunks[0].
SignAfterResponse_KeepSignature(i, n, response) ==
  LET result == response
      stop == (i >= 1 /\ result.return_code # NoError) \/ ~(i + 1 < n)
  IN IF stop
     THEN [done |-> TRUE, i |-> i,
           result |-> [return_code |-> result.return_code,
                       error_message |-> result.error_message,
                       signature |-> SignatureOf(result)]]
     ELSE [done |-> FALSE, i |-> i + 1, result |-> result]

\* sign submitting a chunk again when the user rejected it on the device.
SignAfterResponse_Retry(i, n, response) ==
  LET result == IF i = 0
                THEN [return_code |-> response.return_code,
                      error_message |-> response.error_message,
                      signature |-> NullValue]
                ELSE response
      stop == (i >= 1 /\ result.return_code # NoError) \/ ~(i + 1 < n)
  IN IF i >= 1 /\ result.return_code = UserRejected
     THEN [done |-> FALSE, i |-> i, result |-> result]
     ELSE IF stop
     THEN [done |-> TRUE, i |-> i,
           result |-> [return_code |-> result.return_code,
                       error_message |-> result.error_message,
                       signature |-> SignatureOf(result)]]
     ELSE [done |-> FALSE, i |-> i + 1, result |-> result]

\* sign returning null for the signature whatever the last response holds.
SignAfterResponse_NullSignature(i, n, response) ==
  LET result == IF i = 0
                THEN [return_code |-> response.return_code,
                      error_message |-> response.error_message,
                      signature |-> NullValue]
                ELSE response
      stop == (i >= 1 /\ result.return_code # NoError) \/ ~(i + 1 < n)
  IN IF stop
     THEN [done |-> TRUE, i |-> i,
           result |-> [return_code |-> result.return_code,
                       error_message |-> result.error_message,
                       signature |-> NullValue]]
     ELSE [done |-> FALSE, i |-> i + 1, result |-> result]

\* sign, from the response to chunks[i] on, up to the next signSendChunk call
\* or the return: the first response only initialises result, a later one
\* replaces it and ends the loop unless it reports success.
SignAfterResponse(i, n, response) ==
  LET result == IF i = 0
                THEN [return_code |-> response.return_code,
                      error_message |-> response.error_message,
                      signature |-> NullValue]
                ELSE response
      stop == (i >= 1 /\ result.return_code # NoError) \/ ~(i + 1 < n)
  IN IF stop
     THEN [done |-> TRUE, i |-> i,
           result |-> [return_code |-> result.return_code,
                       error_message |-> result.error_message,
                       signature |-> SignatureOf(result)]]
     ELSE [done |-> FALSE, i |-> i + 1, result |-> result]

\* sign from the call of signSendChunk on chunks[i] up to the next exchange
\* or the return, with this.versionResponse.major as it stands: a call that
\* the version switch answers without an exchange is consumed at once.
RECURSIVE SignRun(_, _, _, _)
SignRun(major, chs, i, result) ==
  LET call == signSendChunk(major, SignChunkIdx(i), Len(chs), chs[i + 1])
      s == SignAfterResponse(i, Len(chs), call.response)
      rest == SignRun(major, chs, s.i, s.result)
  IN IF call.send
     THEN [done |-> FALSE, i |-> i, result |-> result, request |-> call.request,
           gated |-> {major}]
     ELSE IF s.done
     THEN [done |-> TRUE, i |-> s.i, result |-> s.result, gated |-> {major}]
     ELSE rest

\* ------------------------------------------------------- the environment
Calls == {1, 2}

ValidPath == << 44, 931, 0, 0, 0 >>
ShortPath == << 44, 931 >>
Paths == {ValidPath, ShortPath}

\* The string of n lower-case ASCII letters a, b, c, ...
HrpChar(j) == 97 + ((j - 1) % 26)
HrpOfLen(n) == Str([j \in 1..n |-> HrpChar(j)])

\* null, "th", "tthor" and a string one character beyond the upper limit.
Hrps ==
  {NullString, Str(<< 116, 104 >>), Str(<< 116, 116, 104, 111, 114 >>),
   HrpOfLen(HrpMaxLen + 1)}

\* The bytes 1, 2, ..., n: every byte of a message is told from the others.
Message(n) == [j \in 1..n |-> j]
Messages == {Message(n) : n \in 0..MaxMsgLen}

VersionBytes(major, sw) == << 0, major, 0, 3, 0 >> \o StatusBytes(sw)
VersionResponses ==
  {VersionBytes(1, NoError), VersionBytes(2, NoError),
   VersionBytes(2, UserRejected), VersionBytes(2, DashboardOnly)}

SignResponses ==
  {StatusBytes(NoError), << 48, 69 >> \o StatusBytes(NoError), StatusBytes(UserRejected)}

PkBytes == [j \in 1..PkLen |-> 170]
AddrBytes == << 116, 116, 104, 111, 114, 49, 120, 121, 122 >>
AddrResponses ==
  {PkBytes \o AddrBytes \o StatusBytes(NoError),
   PkBytes \o AddrBytes \o StatusBytes(UserRejected)}

AppInfoBytes(tag, name, version, flags) ==
  << tag, Len(name) >> \o name \o << Len(version) >> \o version
     \o << Len(flags) >> \o flags \o StatusBytes(NoError)
AppInfoResponses ==
  {AppInfoBytes(tag, << 97, 98, 99 >>, << 49, 46, 48 >>, << f >>) :
     tag \in {1, 2}, f \in {133, 2, 0}}

DeviceInfoBytes(se, flags, mcu, sw) ==
  << 49, 16, 0, 4 >> \o << Len(se) >> \o se \o << Len(flags) >> \o flags
     \o << Len(mcu) >> \o mcu \o StatusBytes(sw)
\* The fields a device reports: SE version and flags of two lengths each,
\* MCU versions that are empty, end in one zero, in two, in none, or hold a
\* zero elsewhere.
SeAndFlags == {<< << 49, 46, 54 >>, << 238 >> >>, << << >>, << 0, 1 >> >>}
McuVersions ==
  {<< >>, << 0 >>, << 49, 46, 55 >>, << 49, 46, 55, 0 >>, << 49, 0, 0 >>, << 0, 49 >>}
DeviceInfoResponses ==
  {StatusBytes(DashboardOnly),
   DeviceInfoBytes(<< 49, 46, 54 >>, << 238 >>, << 49, 46, 55, 0 >>, DashboardOnly)}
  \cup {DeviceInfoBytes(sf[1], sf[2], mcu, NoError) : sf \in SeAndFlags, mcu \in McuVersions}

DeviceResponses(req) ==
  CASE req.ins = INS_GET_VERSION -> VersionResponses
    [] req.ins = INS_SIGN_SECP256K1 -> SignResponses
    [] req.ins = INS_GET_ADDR_SECP256K1 -> AddrResponses
    [] req.cla = "0xb0" -> AppInfoResponses
    [] OTHER -> DeviceInfoResponses

\* transport.send: the device's response when its status word is among the
\* accepted ones, an exception carrying the status word when it is not, or
\* an exception of the transport itself.
Replies(req) ==
  {IF StatusWord(b) \in req.statuses THEN Ok(b) ELSE Throw(TransportExc(StatusWord(b))) :
     b \in DeviceResponses(req)}
  \cup {Throw(ErrorExc("DisconnectedDevice"))}

\* ------------------------------------------------------------- the state
\* Two calls may be in flight on the one facade instance.  A step of a call
\* is everything its chain of continuations runs between two exchanges of
\* the transport: a call is suspended only while it awaits a response, and
\* the jobs a response sets off run to completion before the transport
\* delivers the next one.  The steps of the two calls interleave freely.
VARIABLES
  versionResponse,  \* this.versionResponse of the one facade instance
  kind,             \* per call: the facade operation invoked
  args,             \* per call: its arguments
  pc,               \* per call: where its chain of continuations stands
  serializedPath,   \* per call: publicKey's local
  chunks,           \* per call: sign's chunks
  idx,              \* per call: sign's index i into chunks
  result,           \* per call: sign's local result; the value resolved with
  sent,             \* per call: the requests handed to transport.send
  recv,             \* per call: the outcomes of those exchanges
  fetched,          \* per call: the major its own serializePath fetched
  gated             \* per call: the majors its version switches have read

vars == << versionResponse, kind, args, pc, serializedPath, chunks, idx, result,
           sent, recv, fetched, gated >>

\* this.versionResponse before any version query: undefined.
NoVersion ==
  [return_code |-> -1, error_message |-> "undefined", test_mode |-> FALSE,
   major |-> -1, minor |-> -1, patch |-> -1, device_locked |-> FALSE]

NoArgs == [path |-> << >>, hrp |-> NullString, message |-> << >>]

Init ==
  /\ versionResponse = NoVersion
  /\ kind = [p \in Calls |-> "none"]
  /\ args = [p \in Calls |-> NoArgs]
  /\ pc = [p \in Calls |-> "idle"]
  /\ serializedPath = [p \in Calls |-> UndefinedValue]
  /\ chunks = [p \in Calls |-> << >>]
  /\ idx = [p \in Calls |-> 0]
  /\ result = [p \in Calls |-> UndefinedValue]
  /\ sent = [p \in Calls |-> << >>]
  /\ recv = [p \in Calls |-> << >>]
  /\ fetched = [p \in Calls |-> -1]
  /\ gated = [p \in Calls |-> {}]

Pending(p) == sent[p][Len(sent[p])]
Send(p, req) == sent' = [sent EXCEPT ![p] = Append(@, req)]
Receive(p, reply) == recv' = [recv EXCEPT ![p] = Append(@, reply)]
Goto(p, label) == pc' = [pc EXCEPT ![p] = label]
\* The promise of the operation resolves with r / rejects with e.
Resolve(p, r) == Goto(p, "done") /\ result' = [result EXCEPT ![p] = r]
Reject(p, e) == Goto(p, "rejected") /\ result' = [result EXCEPT ![p] = e]

\* A facade operation is invoked: up to its first await, the version query
\* or the operation's only exchange.
Invoke(p, k, a, req) ==
  /\ kind' = [kind EXCEPT ![p] = k]
  /\ args' = [args EXCEPT ![p] = a]
  /\ Goto(p, "await")
  /\ Send(p, req)
  /\ UNCHANGED << versionResponse, serializedPath, chunks, idx, result, recv,
                  fetched, gated >>

\* The assignment of serializePath to this.versionResponse.
StoreVersion(p, sp) ==
  /\ versionResponse' = IF sp.assigned THEN sp.version ELSE versionResponse
  /\ fetched' = [fetched EXCEPT ![p] = IF sp.assigned THEN sp.version.major ELSE @]

\* ---------------------------------------------------------- getVersion
getVersion_call(p) ==
  /\ pc[p] = "idle"
  /\ Invoke(p, "getVersion", NoArgs, GetVersionRequest)

getVersion_reply(p) ==
  /\ kind[p] = "getVersion" /\ pc[p] = "await"
  /\ \E reply \in Replies(Pending(p)) :
       LET r == getVersion(reply)
       IN /\ Receive(p, reply)
          /\ IF r.ok
             THEN versionResponse' = r.val /\ Resolve(p, r.val)
             ELSE UNCHANGED versionResponse /\ Resolve(p, processErrorResponse(r.exc))
  /\ UNCHANGED << kind, args, serializedPath, chunks, idx, sent, fetched, gated >>

\* --------------------------------------------------- appInfo, deviceInfo
appInfo_call(p) ==
  /\ pc[p] = "idle"
  /\ Invoke(p, "appInfo", NoArgs, AppInfoRequest)

appInfo_reply(p) ==
  /\ kind[p] = "appInfo" /\ pc[p] = "await"
  /\ \E reply \in Replies(Pending(p)) :
       /\ Receive(p, reply)
       /\ Resolve(p, IF reply.ok THEN appInfoDecode(reply.val)
                     ELSE processErrorResponse(reply.exc))
  /\ UNCHANGED << versionResponse, kind, args, serializedPath, chunks, idx, sent,
                  fetched, gated >>

deviceInfo_call(p) ==
  /\ pc[p] = "idle"
  /\ Invoke(p, "deviceInfo", NoArgs, DeviceInfoRequest)

deviceInfo_reply(p) ==
  /\ kind[p] = "deviceInfo" /\ pc[p] = "await"
  /\ \E reply \in Replies(Pending(p)) :
       /\ Receive(p, reply)
       /\ Resolve(p, IF reply.ok THEN deviceInfoDecode(reply.val)
                     ELSE processErrorResponse(reply.exc))
  /\ UNCHANGED << versionResponse, kind, args, serializedPath, chunks, idx, sent,
                  fetched, gated >>

\* ------------------------------------------------------------ publicKey
publicKey_call(p) ==
  /\ pc[p] = "idle"
  /\ \E path \in Paths :
       Invoke(p, "publicKey", [NoArgs EXCEPT !.path = path], GetVersionRequest)

\* serializePath resumes with the version response and publicKey goes on
\* to its version switch on this.versionResponse.
publicKey_serialized(p) ==
  /\ kind[p] = "publicKey" /\ pc[p] = "await"
  /\ \E reply \in Replies(Pending(p)) :
       LET sp == serializePath(args[p].path, reply)
           req == publicKeyRequest(sp.outcome.val)
       IN /\ Receive(p, reply)
          /\ StoreVersion(p, sp)
          /\ IF ~sp.outcome.ok
             THEN /\ Resolve(p, processErrorResponse(sp.outcome.exc))
                  /\ UNCHANGED << serializedPath, sent, gated >>
             ELSE /\ serializedPath' = [serializedPath EXCEPT ![p] = sp.outcome.val]
                  /\ gated' = [gated EXCEPT ![p] = @ \cup {versionResponse'.major}]
                  /\ IF versionResponse'.major # SupportedMajor
                     THEN Resolve(p, UnsupportedResult) /\ UNCHANGED sent
                     ELSE IF ~req.ok
                     THEN Resolve(p, processErrorResponse(req.exc)) /\ UNCHANGED sent
                     ELSE Send(p, req.val) /\ Goto(p, "reply") /\ UNCHANGED result
  /\ UNCHANGED << kind, args, chunks, idx >>

\* return publicKeyv2(...) is not awaited inside the try block: a rejection
\* of that promise is the rejection of publicKey.
publicKey_reply(p) ==
  /\ kind[p] = "publicKey" /\ pc[p] = "reply"
  /\ \E reply \in Replies(Pending(p)) :
       LET r == PublicKeyResponse(reply)
       IN /\ Receive(p, reply)
          /\ IF r.ok THEN Resolve(p, r.val) ELSE Reject(p, r.exc)
  /\ UNCHANGED << versionResponse, kind, args, serializedPath, chunks, idx, sent,
                  fetched, gated >>

\* ------------------------------- getAddressAndPubKey, showAddressAndPubKey
getAddressAndPubKey_call(p) ==
  /\ pc[p] = "idle"
  /\ \E path \in Paths, hrp \in Hrps :
       Invoke(p, "getAddressAndPubKey", [NoArgs EXCEPT !.path = path, !.hrp = hrp],
              GetVersionRequest)

\* serializePath resumes, then the callback given to then(); the callback
\* reads nothing of the facade, so the two run as one step.
getAddressAndPubKey_serialized(p) ==
  /\ kind[p] = "getAddressAndPubKey" /\ pc[p] = "await"
  /\ \E reply \in Replies(Pending(p)) :
       LET sp == serializePath(args[p].path, reply)
           req == getAddressAndPubKeyRequest(args[p].hrp, sp.outcome.val)
       IN /\ Receive(p, reply)
          /\ StoreVersion(p, sp)
          /\ IF ~sp.outcome.ok
             THEN Resolve(p, processErrorResponse(sp.outcome.exc)) /\ UNCHANGED sent
             ELSE IF ~req.ok
             THEN Resolve(p, processErrorResponse(req.exc)) /\ UNCHANGED sent
             ELSE Send(p, req.val) /\ Goto(p, "reply") /\ UNCHANGED result
  /\ UNCHANGED << kind, args, serializedPath, chunks, idx, gated >>

getAddressAndPubKey_reply(p) ==
  /\ kind[p] = "getAddressAndPubKey" /\ pc[p] = "reply"
  /\ \E reply \in Replies(Pending(p)) :
       /\ Receive(p, reply)
       /\ Resolve(p, IF reply.ok THEN getAddressAndPubKeyDecode(reply.val)
                     ELSE processErrorResponse(reply.exc))
  /\ UNCHANGED << versionResponse, kind, args, serializedPath, chunks, idx, sent,
                  fetched, gated >>

showAddressAndPubKey_call(p) ==
  /\ pc[p] = "idle"
  /\ \E path \in Paths, hrp \in Hrps :
       Invoke(p, "showAddressAndPubKey", [NoArgs EXCEPT !.path = path, !.hrp = hrp],
              GetVersionRequest)

showAddressAndPubKey_serialized(p) ==
  /\ kind[p] = "showAddressAndPubKey" /\ pc[p] = "await"
  /\ \E reply \in Replies(Pending(p)) :
       LET sp == serializePath(args[p].path, reply)
           req == showAddressAndPubKeyRequest(args[p].hrp, sp.outcome.val)
       IN /\ Receive(p, reply)
          /\ StoreVersion(p, sp)
          /\ IF ~sp.outcome.ok
             THEN Resolve(p, processErrorResponse(sp.outcome.exc)) /\ UNCHANGED sent
             ELSE IF ~req.ok
             THEN Resolve(p, processErrorResponse(req.exc)) /\ UNCHANGED sent
             ELSE Send(p, req.val) /\ Goto(p, "reply") /\ UNCHANGED result
  /\ UNCHANGED << kind, args, serializedPath, chunks, idx, gated >>

showAddressAndPubKey_reply(p) ==
  /\ kind[p] = "showAddressAndPubKey" /\ pc[p] = "reply"
  /\ \E reply \in Replies(Pending(p)) :
       /\ Receive(p, reply)
       /\ Resolve(p, IF reply.ok THEN showAddressAndPubKeyDecode(reply.val)
                     ELSE processErrorResponse(reply.exc))
  /\ UNCHANGED << versionResponse, kind, args, serializedPath, chunks, idx, sent,
                  fetched, gated >>

\* ----------------------------------------------------------------- sign
sign_call(p) ==
  /\ pc[p] = "idle"
  /\ \E path \in Paths, message \in Messages :
       Invoke(p, "sign", [NoArgs EXCEPT !.path = path, !.message = message],
              GetVersionRequest)

\* The effect of SignRun on call p: the next exchange, or the result.
SignAdvance(p, run) ==
  /\ idx' = [idx EXCEPT ![p] = run.i]
  /\ result' = [result EXCEPT ![p] = run.result]
  /\ gated' = [gated EXCEPT ![p] = @ \cup run.gated]
  /\ IF run.done
     THEN Goto(p, "done") /\ UNCHANGED sent
     ELSE Goto(p, "chunk") /\ Send(p, run.request)

\* signGetChunks resumes with the outcome of serializePath and sign calls
\* signSendChunk on chunks[0]; a rejection goes to the outer rejection
\* handler of sign.
sign_chunks(p) ==
  /\ kind[p] = "sign" /\ pc[p] = "await"
  /\ \E reply \in Replies(Pending(p)) :
       LET sp == serializePath(args[p].path, reply)
           chs == signGetChunks(sp.outcome.val, args[p].message)
       IN /\ Receive(p, reply)
          /\ StoreVersion(p, sp)
          /\ IF sp.outcome.ok
             THEN /\ chunks' = [chunks EXCEPT ![p] = chs]
                  /\ SignAdvance(p, SignRun(versionResponse'.major, chs, 0, result[p]))
             ELSE /\ Resolve(p, processErrorResponse(sp.outcome.exc))
                  /\ UNCHANGED << chunks, idx, sent, gated >>
  /\ UNCHANGED << kind, args, serializedPath >>

\* The response to chunks[idx].  An exception of the first exchange goes to
\* the rejection handler; one of a later exchange is thrown by the await
\* inside the async callback, which nothing catches.
sign_reply(p) ==
  /\ kind[p] = "sign" /\ pc[p] = "chunk"
  /\ \E reply \in Replies(Pending(p)) :
       LET r == SignChunkResponse(reply)
           s == SignAfterResponse(idx[p], Len(chunks[p]), r.val)
       IN /\ Receive(p, reply)
          /\ IF ~r.ok
             THEN /\ IF idx[p] = 0 THEN Resolve(p, processErrorResponse(r.exc))
                     ELSE Reject(p, r.exc)
                  /\ UNCHANGED << idx, sent, gated >>
             ELSE IF s.done
             THEN /\ Resolve(p, s.result)
                  /\ UNCHANGED << idx, sent, gated >>
             ELSE SignAdvance(p, SignRun(versionResponse.major, chunks[p], s.i, s.result))
  /\ UNCHANGED << versionResponse, kind, args, serializedPath, chunks, fetched >>

\* ------------------------------------------------------ the specification
Next ==
  \E p \in Calls :
    \/ getVersion_call(p) \/ getVersion_reply(p)
    \/ appInfo_call(p) \/ appInfo_reply(p)
    \/ deviceInfo_call(p) \/ deviceInfo_reply(p)
    \/ publicKey_call(p) \/ publicKey_serialized(p) \/ publicKey_reply(p)
    \/ getAddressAndPubKey_call(p) \/ getAddressAndPubKey_serialized(p)
    \/ getAddressAndPubKey_reply(p)
    \/ showAddressAndPubKey_call(p) \/ showAddressAndPubKey_serialized(p)
    \/ showAddressAndPubKey_reply(p)
    \/ sign_call(p) \/ sign_chunks(p) \/ sign_reply(p)

Spec == Init /\ [][Next]_vars

\* The steps that answer call p: the transport returns or raises and the
\* chain of continuations of p runs on to the next exchange or to the end.
Respond(p) ==
  \/ getVersion_reply(p) \/ appInfo_reply(p) \/ deviceInfo_reply(p)
  \/ publicKey_serialized(p) \/ publicKey_reply(p)
  \/ getAddressAndPubKey_serialized(p) \/ getAddressAndPubKey_reply(p)
  \/ showAddressAndPubKey_serialized(p) \/ showAddressAndPubKey_reply(p)
  \/ sign_chunks(p) \/ sign_reply(p)

\* Every exchange of the transport eventually returns or raises, and the
\* continuation it wakes is run.
FairSpec == Spec /\ \A p \in Calls : WF_vars(Respond(p))

\* ------------------------------------- serializeHRP called on its own
\* serializeHRP is a static method: a caller may apply it to any string.  The
\* inputs are null and the strings of every length from 0 to MaxHrpExtra
\* beyond the upper limit, of lower-case ASCII letters.
MaxHrpExtra == 2
HrpInputs == {NullString} \cup {HrpOfLen(n) : n \in 0..(HrpMaxLen + MaxHrpExtra)}

InitHRP ==
  /\ versionResponse = NoVersion
  /\ kind = [p \in Calls |-> "none"]
  /\ \E hrp \in HrpInputs : args = [p \in Calls |-> [NoArgs EXCEPT !.hrp = hrp]]
  /\ pc = [p \in Calls |-> "idle"]
  /\ serializedPath = [p \in Calls |-> UndefinedValue]
  /\ chunks = [p \in Calls |-> << >>]
  /\ idx = [p \in Calls |-> 0]
  /\ result = [p \in Calls |-> UndefinedValue]
  /\ sent = [p \in Calls |-> << >>]
  /\ recv = [p \in Calls |-> << >>]
  /\ fetched = [p \in Calls |-> -1]
  /\ gated = [p \in Calls |-> {}]

\* The call returns a buffer or throws; result[p] holds which.
serializeHRP_call(p) ==
  /\ pc[p] = "idle"
  /\ kind' = [kind EXCEPT ![p] = "serializeHRP"]
  /\ result' = [result EXCEPT ![p] = serializeHRP(args[p].hrp)]
  /\ Goto(p, "done")
  /\ UNCHANGED << versionResponse, args, serializedPath, chunks, idx, sent, recv,
                  fetched, gated >>

NextHRP == \E p \in Calls : serializeHRP_call(p)

SpecHRP == InitHRP /\ [][NextHRP]_vars

\* ============================================================ the claims
PathTaking == {"publicKey", "getAddressAndPubKey", "showAddressAndPubKey", "sign"}
Finished(p) == pc[p] \in {"done", "rejected"}

\* The outcome of the k-th exchange of call p reported success.
ReplySuccess(p, k) == recv[p][k].ok /\ StatusWord(recv[p][k].val) = NoError
\* The outcome of the k-th exchange is a response with a non-success status.
ReplyFailure(p, k) == recv[p][k].ok /\ StatusWord(recv[p][k].val) # NoError

\* In a sign call sent[p][1] is the version query and sent[p][k + 1] is
\* chunk k; recv[p] holds the outcomes in the same positions.

\* C1: chunk i+1 of a sign call is submitted only if the response to chunk i
\* reported success, for every i >= 1 (the path frame included); after the
\* first non-success response no chunk is sent and sign returns that
\* chunk's return code.
C1_ChunkOnlyAfterSuccess ==
  \A p \in Calls :
    kind[p] = "sign" =>
      /\ \A k \in 3..Len(sent[p]) : ReplySuccess(p, k - 1)
      /\ \A k \in 2..Len(recv[p]) :
           (ReplyFailure(p, k) /\ \A j \in 2..(k - 1) : ReplySuccess(p, j)) =>
             /\ Len(sent[p]) = k
             /\ pc[p] = "done"
             /\ result[p].return_code = StatusWord(recv[p][k].val)

\* The version query of call p succeeded and reported an unsupported major.
OwnVersionUnsupported(p) ==
  /\ Len(recv[p]) >= 1
  /\ recv[p][1].ok
  /\ StatusWord(recv[p][1].val) = NoError
  /\ At(recv[p][1].val, 1) # SupportedMajor

ValidArgs(p) ==
  /\ Len(args[p].path) = 5
  /\ kind[p] \in {"getAddressAndPubKey", "showAddressAndPubKey"} =>
       serializeHRP(args[p].hrp).ok

\* C2: a path-taking operation (called with a well-formed path and prefix)
\* whose version query reported an unsupported major resolves with return
\* code 0x6400 and the message "App Version is not supported".
C2_VersionMismatchSurfaced ==
  \A p \in Calls :
    (kind[p] \in PathTaking /\ ValidArgs(p) /\ OwnVersionUnsupported(p) /\ Finished(p)) =>
      /\ pc[p] = "done"
      /\ result[p].return_code = VersionNotSupported
      /\ result[p].error_message = "App Version is not supported"

\* C3: no facade operation ever rejects: each resolves with a structured
\* result whichever exchange raised.
C3_NeverRejects == \A p \in Calls : pc[p] # "rejected"

\* C4: every version-gated branch of an operation reads the major version
\* that the operation's own serializePath fetched.
C4_VersionScoped == \A p \in Calls : gated[p] \subseteq {fetched[p]}

\* C5: in a sign call the chunks are submitted in the order 1, 2, ..., each
\* with the total count N and its own frame, one request at a time: a chunk
\* is submitted only when every earlier exchange has been answered.
C5_SequentialChunks ==
  \A p \in Calls :
    kind[p] = "sign" =>
      /\ Len(sent[p]) - Len(recv[p]) \in {0, 1}
      /\ (Len(sent[p]) - Len(recv[p]) = 1) <=> (pc[p] \in {"await", "chunk"})
      /\ \A k \in 2..Len(sent[p]) :
           /\ sent[p][k].ins = INS_SIGN_SECP256K1
           /\ sent[p][k].p1 = k - 1
           /\ sent[p][k].p2 = Len(chunks[p])
           /\ sent[p][k].data = chunks[p][k - 1]

C5_Witness ==
  \E p \in Calls :
    kind[p] = "sign" /\ pc[p] = "done" /\ Len(sent[p]) = 4 /\ Len(recv[p]) = 4

CeilDiv(a, b) == (a + b - 1) \div b

\* C6: signGetChunks yields 1 + ceil(L/C) frames; frame 0 is the result of
\* serializePath; the others are the message cut into windows of C bytes,
\* only the last possibly shorter, none padded or empty, and together they
\* are the message.
C6_Chunking ==
  \A p \in Calls :
    (kind[p] = "sign" /\ chunks[p] # << >>) =>
      LET message == args[p].message
          n == Len(chunks[p]) - 1
      IN /\ Len(chunks[p]) = 1 + CeilDiv(Len(message), CHUNK_SIZE)
         /\ chunks[p][1] \in {Obj(UnsupportedResult), Buf(SerializeLevels(args[p].path))}
         /\ \A k \in 1..n :
              /\ IsBuffer(chunks[p][k + 1])
              /\ Len(chunks[p][k + 1].bytes) <= CHUNK_SIZE
              /\ Len(chunks[p][k + 1].bytes) >= 1
              /\ k < n => Len(chunks[p][k + 1].bytes) = CHUNK_SIZE
         /\ ConcatBytes(Tail(chunks[p])) = message

C6_Witness ==
  \E p \in Calls :
    /\ kind[p] = "sign"
    /\ Len(args[p].message) > CHUNK_SIZE
    /\ Len(args[p].message) % CHUNK_SIZE # 0
    /\ Len(chunks[p]) >= 3

\* C7: a path-taking operation first sends the version query; when that
\* query answers with a non-success status S the operation resolves with
\* return code S and has sent nothing else.
C7_VersionFailureEndsOperation ==
  \A p \in Calls :
    kind[p] \in PathTaking =>
      /\ sent[p][1] = GetVersionRequest
      /\ (Len(recv[p]) >= 1 /\ ReplyFailure(p, 1)) =>
           /\ pc[p] = "done"
           /\ result[p].return_code = StatusWord(recv[p][1].val)
           /\ Len(sent[p]) = 1

C7_Witness ==
  \E p \in Calls :
    /\ kind[p] = "sign" /\ Len(recv[p]) = 1 /\ ReplyFailure(p, 1)
    /\ result[p].return_code = DashboardOnly

\* C8: appInfo answers a response whose format tag is not 1 with return code
\* 0x9001, the "format not recognized" message and the placeholders "err";
\* with tag 1 the return code is the trailing status word.
C8_FormatNotRecognized ==
  \A p \in Calls :
    (kind[p] = "appInfo" /\ pc[p] = "done" /\ recv[p][1].ok) =>
      IF At(recv[p][1].val, 0) # 1
      THEN /\ result[p].return_code = FormatNotRecognized
           /\ result[p].error_message = "response format ID not recognized"
           /\ result[p].appName = ErrString
           /\ result[p].appVersion = ErrString
      ELSE result[p].return_code = StatusWord(recv[p][1].val)

\* appInfo has decoded the response: format 1, "abc", "1.0", flags 0x85.
AppInfoExample(p) ==
  /\ kind[p] = "appInfo" /\ pc[p] = "done" /\ recv[p][1].ok
  /\ recv[p][1].val = << 1, 3, 97, 98, 99, 3, 49, 46, 48, 1, 133, 144, 0 >>

\* C9 as stated: flags 0x85 decode to recovery, not signed-mcu-code, not
\* onboarded, pin-validated.
C9_FlagsAsStated ==
  \A p \in Calls :
    AppInfoExample(p) =>
      /\ result[p].flag_recovery = TRUE
      /\ result[p].flag_signed_mcu_code = FALSE
      /\ result[p].flag_onboarded = FALSE
      /\ result[p].flag_pin_validated = TRUE

\* C9, amended: flags 0x85 = 0x80 + 0x04 + 0x01 decode to recovery, not
\* signed-mcu-code, onboarded, pin-validated, with name "abc" and version
\* "1.0".
C9_FlagsDecoded ==
  \A p \in Calls :
    AppInfoExample(p) =>
      /\ result[p].appName = << 97, 98, 99 >>
      /\ result[p].appVersion = << 49, 46, 48 >>
      /\ result[p].flagsValue = 133
      /\ result[p].flag_recovery = TRUE
      /\ result[p].flag_signed_mcu_code = FALSE
      /\ result[p].flag_onboarded = TRUE
      /\ result[p].flag_pin_validated = TRUE

C9_Witness == \E p \in Calls : AppInfoExample(p)

\* A request with its p1 left out of the comparison.
WithoutP1(req) == [req EXCEPT !.p1 = 0]

\* C10: getAddressAndPubKey and showAddressAndPubKey, given the same
\* arguments and the same outcomes of their exchanges, stand at the same
\* point with the same result, having sent the same requests but for p1,
\* which is ONLY_RETRIEVE in the one and SHOW_ADDRESS_IN_DEVICE in the other.
C10_GetShowEquivalent ==
  \A p, q \in Calls :
    ( /\ kind[p] = "getAddressAndPubKey"
      /\ kind[q] = "showAddressAndPubKey"
      /\ args[p] = args[q]
      /\ recv[p] = recv[q] ) =>
      /\ pc[p] = pc[q]
      /\ result[p] = result[q]
      /\ Len(sent[p]) = Len(sent[q])
      /\ \A k \in 1..Len(sent[p]) : WithoutP1(sent[p][k]) = WithoutP1(sent[q][k])
      /\ \A k \in 2..Len(sent[p]) :
           /\ sent[p][k].p1 = P1_ONLY_RETRIEVE
           /\ sent[q][k].p1 = P1_SHOW_ADDRESS_IN_DEVICE

C10_Witness ==
  \E p, q \in Calls :
    /\ kind[p] = "getAddressAndPubKey" /\ kind[q] = "showAddressAndPubKey"
    /\ args[p] = args[q] /\ recv[p] = recv[q]
    /\ pc[p] = "done" /\ Len(recv[p]) = 2
    /\ result[p].return_code = NoError
    /\ result[p].bech32_address = AddrBytes

\* C11: serializeHRP turns a string of length n, 3 <= n <= 83, into n + 1
\* bytes, the byte n followed by the n character codes of the string; for
\* null and for a length below 3 or above 83 it throws and yields nothing.
C11_SerializeHRP ==
  \A p \in Calls :
    (kind[p] = "serializeHRP" /\ pc[p] = "done") =>
      LET hrp == args[p].hrp
          n == Len(hrp.chars)
          out == result[p]
      IN IF ~hrp.isNull /\ n >= 3 /\ n <= 83
         THEN /\ out.ok
              /\ IsBuffer(out.val)
              /\ Len(out.val.bytes) = n + 1
              /\ out.val.bytes[1] = n
              /\ \A j \in 1..n : out.val.bytes[j + 1] = hrp.chars[j]
         ELSE /\ ~out.ok
              /\ out.exc = ErrorExc("Invalid HRP")

C11_Witness ==
  \E p \in Calls :
    /\ kind[p] = "serializeHRP" /\ pc[p] = "done"
    /\ Len(args[p].hrp.chars) = 83 /\ result[p].ok
    /\ Len(result[p].val.bytes) = 84

\* The decoded MCU version of a field: the field without its last byte when
\* that byte is zero, the field itself otherwise.
McuVersionOf(mcu) ==
  IF mcu # << >> /\ mcu[Len(mcu)] = 0 THEN SubSeq(mcu, 1, Len(mcu) - 1) ELSE mcu

\* C12: deviceInfo answers a response with status 0x6e00 with the Dashboard
\* error alone, no field parsed; any other response is read with one cursor
\* (4 bytes of target id, then SE version, flags and MCU version, each after
\* its length byte), and the MCU version loses exactly one trailing byte if
\* and only if the last byte of its field is zero.
C12_DeviceInfoDecode ==
  \A p \in Calls :
    (kind[p] = "deviceInfo" /\ pc[p] = "done" /\ recv[p][1].ok) =>
      LET response == recv[p][1].val
      IN IF StatusWord(response) = 28160
         THEN result[p] =
                [return_code |-> 28160,
                 error_message |-> "This command is only available in the Dashboard"]
         ELSE \A sf \in SeAndFlags, mcu \in McuVersions :
                response = DeviceInfoBytes(sf[1], sf[2], mcu, StatusWord(response)) =>
                  /\ result[p].return_code = StatusWord(response)
                  /\ result[p].targetId = SubSeq(response, 1, 4)
                  /\ result[p].seVersion = sf[1]
                  /\ result[p].flag = sf[2]
                  /\ result[p].mcuVersion = McuVersionOf(mcu)

C12_Witness ==
  \E p \in Calls :
    /\ kind[p] = "deviceInfo" /\ pc[p] = "done" /\ recv[p][1].ok
    /\ recv[p][1].val = DeviceInfoBytes(<< >>, << 0, 1 >>, << 49, 0, 0 >>, NoError)
    /\ result[p].mcuVersion = << 49, 0 >>
    /\ result[p].flag = << 0, 1 >>

\* The number of frames of the sign call p: 1 + ceil(L/C).
SignFrames(p) == 1 + CeilDiv(Len(args[p].message), CHUNK_SIZE)

\* The sign call p has returned and every response signSendChunk gave it
\* reported success: none was the local "not supported" answer of the
\* version switch, and every exchange answered with the success status.
SignAllSuccess(p) ==
  /\ kind[p] = "sign" /\ pc[p] = "done" /\ chunks[p] # << >>
  /\ gated[p] \subseteq {SupportedMajor}
  /\ \A k \in 2..Len(recv[p]) : ReplySuccess(p, k)

\* The decoded response to the last chunk the sign call p submitted.
LastChunkResponse(p) == SignChunkResponse(recv[p][Len(recv[p])]).val

\* C13 as stated: when every chunk response reports success, sign has made
\* exactly N = 1 + ceil(L/C) sign exchanges and its result is the return
\* code, error message and signature of the response to chunk N, whatever
\* signature that response returned.
C13_SignResultAsStated ==
  \A p \in Calls :
    SignAllSuccess(p) =>
      /\ Len(sent[p]) = 1 + SignFrames(p)
      /\ Len(recv[p]) = 1 + SignFrames(p)
      /\ result[p] = [return_code |-> LastChunkResponse(p).return_code,
                      error_message |-> LastChunkResponse(p).error_message,
                      signature |-> LastChunkResponse(p).signature]

\* C13, amended: as above for N >= 2; when N = 1 (the empty message) the
\* signature of the result is null whatever the response to the only chunk
\* returned.
C13_SignResult ==
  \A p \in Calls :
    SignAllSuccess(p) =>
      /\ Len(sent[p]) = 1 + SignFrames(p)
      /\ Len(recv[p]) = 1 + SignFrames(p)
      /\ result[p] = [return_code |-> LastChunkResponse(p).return_code,
                      error_message |-> LastChunkResponse(p).error_message,
                      signature |-> IF SignFrames(p) = 1 THEN NullValue
                                    ELSE LastChunkResponse(p).signature]

C13_Witness ==
  \E p \in Calls :
    /\ SignAllSuccess(p)
    /\ Len(args[p].message) = MaxMsgLen
    /\ Len(sent[p]) = 1 + SignFrames(p)
    /\ result[p].signature = Buf(<< 48, 69 >>)

\* The number of exchanges the operation of call p may make: the version
\* query and N more for a path-taking operation (N the number of frames of
\* sign, 1 for the address operations), the one exchange of the others.
MaxExchanges(p) ==
  IF kind[p] = "sign" THEN 1 + SignFrames(p)
  ELSE IF kind[p] \in PathTaking THEN 2
  ELSE 1

\* No request of a call was handed to the transport twice (two requests of
\* a call differ in the instruction or, for sign, in the chunk index), and
\* no call made more exchanges than MaxExchanges.
NoRetries ==
  \A p \in Calls :
    /\ \A j, k \in 1..Len(sent[p]) :
         j # k => << sent[p][j].ins, sent[p][j].p1 >> # << sent[p][k].ins, sent[p][k].p1 >>
    /\ Len(sent[p]) <= MaxExchanges(p)
    /\ Len(recv[p]) <= Len(sent[p])

\* C14: no operation sends a request twice (the version query, the address
\* request, a chunk index), none makes more than 1 + N exchanges, and, as
\* long as every exchange eventually returns or raises, an operation that
\* was invoked eventually completes.
C14_NoRetriesAndCompletion ==
  /\ []NoRetries
  /\ \A p \in Calls : (pc[p] # "idle") ~> Finished(p)

C14_Witness ==
  \E p \in Calls :
    /\ kind[p] = "sign" /\ Finished(p)
    /\ Len(args[p].message) = MaxMsgLen
    /\ Len(sent[p]) = MaxExchanges(p)
    /\ Len(recv[p]) = MaxExchanges(p)

\* The call p is an address operation given an invalid prefix: null, or of
\* a length outside 3..83.
InvalidHrpCall(p) ==
  /\ kind[p] \in {"getAddressAndPubKey", "showAddressAndPubKey"}
  /\ \/ args[p].hrp.isNull
     \/ Len(args[p].hrp.chars) < 3
     \/ Len(args[p].hrp.chars) > 83

\* C15: an address operation given an invalid prefix never rejects and
\* hands the transport the version query only, no GET_ADDR_SECP256K1
\* request; once the version query is answered it has resolved with an
\* error result {return_code, error_message}, which is the "Invalid HRP"
\* error when the version query and the path were good.
C15_InvalidHrp ==
  \A p \in Calls :
    InvalidHrpCall(p) =>
      /\ pc[p] # "rejected"
      /\ sent[p] = << GetVersionRequest >>
      /\ \A k \in 1..Len(sent[p]) : sent[p][k].ins # INS_GET_ADDR_SECP256K1
      /\ Len(recv[p]) >= 1 =>
           /\ pc[p] = "done"
           /\ DOMAIN result[p] = {"return_code", "error_message"}
           /\ result[p].return_code # NoError
           /\ (ReplySuccess(p, 1) /\ Len(args[p].path) = 5) =>
                result[p] = [return_code |-> 65535, error_message |-> "Invalid HRP"]

C15_Witness ==
  \E p \in Calls :
    /\ InvalidHrpCall(p) /\ kind[p] = "showAddressAndPubKey"
    /\ Len(args[p].hrp.chars) = 84
    /\ Len(recv[p]) = 1 /\ ReplySuccess(p, 1) /\ Len(args[p].path) = 5
    /\ fetched[p] = SupportedMajor
    /\ pc[p] = "done"
    /\ result[p].error_message = "Invalid HRP"

\* The call p is the only operation invoked on the instance.
Alone(p) == \A q \in Calls \ {p} : pc[q] = "idle"

\* C16: a path-taking operation that runs alone and whose own version query
\* reported an unsupported major has handed the transport the version query
\* and nothing else, no GET_ADDR_SECP256K1 request and no SIGN chunk, and
\* has ended.
C16_UnsupportedSendsNothing ==
  \A p \in Calls :
    (kind[p] \in PathTaking /\ Alone(p) /\ OwnVersionUnsupported(p)) =>
      /\ sent[p] = << GetVersionRequest >>
      /\ \A k \in 1..Len(sent[p]) :
           sent[p][k].ins \notin {INS_GET_ADDR_SECP256K1, INS_SIGN_SECP256K1}
      /\ pc[p] = "done"

C16_Witness ==
  \E p \in Calls :
    /\ kind[p] = "sign" /\ Alone(p) /\ OwnVersionUnsupported(p)
    /\ Len(args[p].path) = 5 /\ Len(args[p].message) = MaxMsgLen
    /\ gated[p] = {1}
    /\ pc[p] = "done"
    /\ result[p].return_code = VersionNotSupported

\* The call p is sign given the empty message.
EmptySign(p) == kind[p] = "sign" /\ args[p].message = << >>

\* C17: sign given the empty message cuts it into one frame and makes at
\* most one sign exchange, with chunk index 1 and total 1, exactly one when
\* its version query reported the supported major and the path was good;
\* when that exchange is answered sign returns the return code and error
\* message of the response with the signature null, whatever signature the
\* response carried.
C17_EmptyMessage ==
  \A p \in Calls :
    EmptySign(p) =>
      /\ chunks[p] # << >> => Len(chunks[p]) = 1
      /\ Len(sent[p]) <= 2
      /\ \A k \in 2..Len(sent[p]) :
           /\ sent[p][k].ins = INS_SIGN_SECP256K1
           /\ sent[p][k].p1 = 1
           /\ sent[p][k].p2 = 1
      /\ ( /\ Len(recv[p]) >= 1 /\ ReplySuccess(p, 1)
           /\ At(recv[p][1].val, 1) = 2
           /\ Len(args[p].path) = 5 ) => Len(sent[p]) = 2
      /\ (Len(recv[p]) = 2 /\ recv[p][2].ok) =>
           /\ pc[p] = "done"
           /\ result[p] = [return_code |-> StatusWord(recv[p][2].val),
                           error_message |-> LastChunkResponse(p).error_message,
                           signature |-> NullValue]

C17_Witness ==
  \E p \in Calls :
    /\ EmptySign(p) /\ pc[p] = "done"
    /\ Len(recv[p]) = 2 /\ recv[p][2] = Ok(<< 48, 69, 144, 0 >>)
    /\ LastChunkResponse(p).signature = Buf(<< 48, 69 >>)
    /\ result[p].signature = NullValue

====
